---- MODULE Spec2Model ----
(***************************************************************************)
(* Model of the health cache (pkg/plugin/health.go) and of the settings    *)
(* resolver (pkg/plugin/resources.go) of grafana-llm-app.                  *)
(*                                                                         *)
(* A Go pointer that may be nil is a sequence of length 0 (nil) or 1 (the  *)
(* value pointed to).  A Go map is a function whose domain grows.          *)
(***************************************************************************)
EXTENDS Integers, Sequences, FiniteSets, TLC

\* ------------------------------------------------------------------ bounds
\* Number of goroutines that call CheckHealth concurrently.
NumProcs == 2
\* Total number of CheckHealth calls started in one behaviour.
MaxCalls == 3

Procs == 1..NumProcs

VARIABLES
    settings,          \* a.settings: the fields the health check reads
    vectorService,     \* a.vectorService: "nil" or "set"
    healthOpenAI,      \* a.healthOpenAI: <<>> or <<openAIHealthDetails>>
    healthVector,      \* a.healthVector: <<>> or <<vectorHealthDetails>>
    healthCheckMutex,  \* a.healthCheckMutex: 0 when free, else the holder
    pc,                \* position of each caller inside CheckHealth
    local,             \* each caller's locals: openAI, vector, next model index
    last,              \* <<>> or <<result>> of the CheckHealth call that returned last
    calls,             \* number of CheckHealth calls started
    llmReqs,           \* number of requests sent through a.healthCheckClient.Do
    vecReqs,           \* number of calls of a.vectorService.Health
    llmFailSeen,       \* some request through healthCheckClient has failed
    appSettings,       \* loadSettings' argument: JSONData and DecryptedSecureJSONData
    loaded,            \* <<>> or <<what loadSettings returned>>
    vpc,               \* the vector store client: "idle" or "inflight"
    vop,               \* the operation of grafanaVectorAPI that was called last
    ctxDone,           \* the context given to that operation has been cancelled
    vresp,             \* <<>> or <<the HTTP response the operation obtained>>
    vresult,           \* <<>> or <<what the operation returned>>
    openBodies,        \* number of response bodies obtained and not closed
    vcalls             \* number of operations called

healthVars == <<settings, vectorService, healthOpenAI, healthVector, healthCheckMutex,
                pc, local, last, calls, llmReqs, vecReqs, llmFailSeen>>
settingsVars == <<appSettings, loaded>>
vectorVars == <<vpc, vop, ctxDone, vresp, vresult, openBodies, vcalls>>
vars == <<healthVars, settingsVars, vectorVars>>

\* ------------------------------------------------------- health.go: data
providerModels ==
    [openai |-> <<"gpt-3.5-turbo", "gpt-4">>,
     pulze  |-> <<"pulze", "openai/gpt-4">>]

Range(s) == {s[i] : i \in 1..Len(s)}

\* The model list openAIHealth walks (health.go:97-100).
ModelList(s) ==
    IF s.Provider = "pulze" THEN providerModels["pulze"] ELSE providerModels["openai"]

\* Outcomes of one request through healthCheckClient.Do: status 200, a status
\* other than 200, or a transport error.
LLMOutcomes == {"200", "500", "err"}
\* Outcomes of vectorService.Health.
VectorOutcomes == {"200", "503", "err"}

\* testOpenAIModel's returned error text ("" is a nil error).
testOpenAIModelError(outcome) ==
    CASE outcome = "200" -> ""
      [] outcome = "500" -> "unexpected status code: 500"
      [] OTHER           -> "make request: transport error"

\* testVectorService's returned error text ("" is a nil error).
testVectorServiceError(outcome) ==
    CASE outcome = "200" -> ""
      [] outcome = "503" -> "vector service health check failed: get health: 503"
      [] OTHER           -> "vector service health check failed: get health: transport error"

\* Zero values of the Go structs.
ZeroOpenAI == [Configured |-> FALSE, OK |-> FALSE, Error |-> "", Models |-> <<>>]
ZeroVector == [Enabled |-> FALSE, OK |-> FALSE, Error |-> ""]
ZeroLocal  == [openAI |-> ZeroOpenAI, vector |-> ZeroVector, idx |-> 0]

\* d.Models[model] = health
MapPut(m, k, v) == [x \in DOMAIN m \cup {k} |-> IF x = k THEN v ELSE m[x]]

\* Mutant of ModelHealth: the loop body without its `if d.Configured` guard.
ModelHealth_Unguarded(configured, outcome) ==
    IF testOpenAIModelError(outcome) = ""
    THEN [OK |-> TRUE, Error |-> ""]
    ELSE [OK |-> FALSE, Error |-> testOpenAIModelError(outcome)]

\* The per-model entry written by one pass of the loop body (health.go:103-113).
ModelHealth(configured, outcome) ==
    IF ~configured
    THEN [OK |-> FALSE, Error |-> "OpenAI not configured"]
    ELSE IF testOpenAIModelError(outcome) = ""
         THEN [OK |-> TRUE, Error |-> ""]
         ELSE [OK |-> FALSE, Error |-> testOpenAIModelError(outcome)]

\* anyOK (health.go:115-121).
AnyOK(models) == \E m \in DOMAIN models : models[m].OK

\* Mutant of Summarize: a single failed model fails the whole check.
Summarize_AllOK(d) ==
    IF \A m \in DOMAIN d.Models : d.Models[m].OK
    THEN d
    ELSE [d EXCEPT !.OK = FALSE, !.Error = "No models are working"]

\* health.go:122-125: d after the models were walked.
Summarize(d) ==
    IF AnyOK(d.Models)
    THEN d
    ELSE [d EXCEPT !.OK = FALSE, !.Error = "No models are working"]

\* health.go:127-130: the cache after openAIHealth computed d.
CacheOpenAI(cache, d) == IF d.OK THEN <<d>> ELSE cache

\* health.go:168-171: the cache after vectorHealth computed d.
CacheVector(cache, d) == IF d.OK THEN <<d>> ELSE cache

\* Mutant of StoreIfNoError: CheckHealth stores whatever was returned.
StoreAlways(cache, d) == <<d>>

\* health.go:182-184 and 187-189: CheckHealth's own store of a returned value.
StoreIfNoError(cache, d) == IF d.Error = "" THEN <<d>> ELSE cache

\* json.Marshal of the detail structs: `omitempty` drops an empty error.
MarshalModels(models) ==
    [m \in DOMAIN models |->
        IF models[m].Error = ""
        THEN [ok |-> models[m].OK]
        ELSE [ok |-> models[m].OK, error |-> models[m].Error]]

MarshalOpenAI(d) ==
    IF d.Error = ""
    THEN [configured |-> d.Configured, ok |-> d.OK, models |-> MarshalModels(d.Models)]
    ELSE [configured |-> d.Configured, ok |-> d.OK, error |-> d.Error,
          models |-> MarshalModels(d.Models)]

MarshalVector(d) ==
    IF d.Error = ""
    THEN [enabled |-> d.Enabled, ok |-> d.OK]
    ELSE [enabled |-> d.Enabled, ok |-> d.OK, error |-> d.Error]

\* getVersion (health.go:48-54).
Versions == {"unknown", "0.1.0"}

\* ------------------------------------------------------------- Init
\* The instance before any health check, for the given settings.
HealthInit(s, vs) ==
    /\ settings = s
    /\ vectorService = vs
    /\ healthOpenAI = <<>>
    /\ healthVector = <<>>
    /\ healthCheckMutex = 0
    /\ pc = [p \in Procs |-> "idle"]
    /\ local = [p \in Procs |-> ZeroLocal]
    /\ last = <<>>
    /\ calls = 0
    /\ llmReqs = 0
    /\ vecReqs = 0
    /\ llmFailSeen = FALSE

\* The vector store client before any operation (newGrafanaVectorAPI).
VectorInit ==
    /\ vpc = "idle"
    /\ vop = "none"
    /\ ctxDone = FALSE
    /\ vresp = <<>>
    /\ vresult = <<>>
    /\ openBodies = 0
    /\ vcalls = 0

\* No loadSettings call is under way.
NoAppSettings == [JSONData |-> [kind |-> "empty"], DecryptedSecureJSONData |-> <<>>]

Init ==
    /\ \E s \in [Configured : BOOLEAN, Provider : {"openai", "pulze"},
                  VectorEnabled : BOOLEAN], vs \in {"nil", "set"} : HealthInit(s, vs)
    /\ appSettings = NoAppSettings
    /\ loaded = <<>>
    /\ VectorInit

\* ------------------------------------------------------------- actions
\* A caller enters CheckHealth (health.go:177) and is about to lock.
CheckHealthCall(p) ==
    /\ pc[p] = "idle"
    /\ calls < MaxCalls
    /\ calls' = calls + 1
    /\ pc' = [pc EXCEPT ![p] = "lock"]
    /\ UNCHANGED settingsVars
    /\ UNCHANGED vectorVars
    /\ UNCHANGED <<settings, vectorService, healthOpenAI, healthVector,
                   healthCheckMutex, local, last, llmReqs, vecReqs, llmFailSeen>>

\* Mutant of LockFree: Lock returns without waiting for the holder.
LockFree_NoWait(p) == TRUE

\* sync.Mutex.Lock succeeds only on a free mutex.
LockFree(p) == healthCheckMutex = 0

\* a.healthCheckMutex.Lock() (health.go:178).
Lock(p) ==
    /\ pc[p] = "lock"
    /\ LockFree(p)
    /\ healthCheckMutex' = p
    /\ pc' = [pc EXCEPT ![p] = "openAI"]
    /\ UNCHANGED settingsVars
    /\ UNCHANGED vectorVars
    /\ UNCHANGED <<settings, vectorService, healthOpenAI, healthVector,
                   local, last, calls, llmReqs, vecReqs, llmFailSeen>>

\* Mutant of UseCachedOpenAI: the cached snapshot is ignored.
UseCachedOpenAI_Never(cache) == FALSE

\* openAIHealth reads the cache (health.go:88): does it return the snapshot?
UseCachedOpenAI(cache) == cache # <<>>

\* openAIHealth up to its first blocking point (health.go:87-114).  With a
\* cached snapshot it returns it; unconfigured, the loop marks every model
\* without a request and the function runs to its return; configured, the
\* first request is about to be sent.
OpenAIHealthBegin(p) ==
    /\ pc[p] = "openAI"
    /\ IF UseCachedOpenAI(healthOpenAI)
       THEN /\ local' = [local EXCEPT ![p].openAI = healthOpenAI[1]]
            /\ pc' = [pc EXCEPT ![p] = "storeOpenAI"]
            /\ UNCHANGED healthOpenAI
       ELSE LET d0 == [Configured |-> settings.Configured, OK |-> TRUE,
                       Error |-> "", Models |-> <<>>]
            IN IF ~d0.Configured
               THEN LET d == Summarize(
                              [d0 EXCEPT !.Models =
                                 [m \in Range(ModelList(settings)) |->
                                     ModelHealth(FALSE, "200")]])
                    IN /\ local' = [local EXCEPT ![p].openAI = d]
                       /\ healthOpenAI' = CacheOpenAI(healthOpenAI, d)
                       /\ pc' = [pc EXCEPT ![p] = "storeOpenAI"]
               ELSE /\ local' = [local EXCEPT ![p].openAI = d0, ![p].idx = 1]
                    /\ pc' = [pc EXCEPT ![p] = "probe"]
                    /\ UNCHANGED healthOpenAI
    /\ UNCHANGED settingsVars
    /\ UNCHANGED vectorVars
    /\ UNCHANGED <<settings, vectorService, healthVector, healthCheckMutex,
                   last, calls, llmReqs, vecReqs, llmFailSeen>>

\* testOpenAIModel sends its request (health.go:66-70) and blocks.
TestOpenAIModelSend(p) ==
    /\ pc[p] = "probe"
    /\ llmReqs' = llmReqs + 1
    /\ pc' = [pc EXCEPT ![p] = "probeWait"]
    /\ UNCHANGED settingsVars
    /\ UNCHANGED vectorVars
    /\ UNCHANGED <<settings, vectorService, healthOpenAI, healthVector,
                   healthCheckMutex, local, last, calls, vecReqs, llmFailSeen>>

\* The request returns (health.go:70-83); the loop body records the model
\* (health.go:108-113) and either goes on to the next model or leaves the loop
\* and runs openAIHealth to its return (health.go:115-131).
TestOpenAIModelRecv(p, outcome) ==
    /\ pc[p] = "probeWait"
    /\ LET models == ModelList(settings)
           i      == local[p].idx
           d1     == [local[p].openAI EXCEPT !.Models =
                        MapPut(@, models[i], ModelHealth(TRUE, outcome))]
       IN IF i < Len(models)
          THEN /\ local' = [local EXCEPT ![p].openAI = d1, ![p].idx = i + 1]
               /\ pc' = [pc EXCEPT ![p] = "probe"]
               /\ UNCHANGED healthOpenAI
          ELSE /\ local' = [local EXCEPT ![p].openAI = Summarize(d1), ![p].idx = 0]
               /\ healthOpenAI' = CacheOpenAI(healthOpenAI, Summarize(d1))
               /\ pc' = [pc EXCEPT ![p] = "storeOpenAI"]
    /\ llmFailSeen' = (llmFailSeen \/ outcome # "200")
    /\ UNCHANGED settingsVars
    /\ UNCHANGED vectorVars
    /\ UNCHANGED <<settings, vectorService, healthVector, healthCheckMutex,
                   last, calls, llmReqs, vecReqs>>

\* Mutant of AfterOpenAI: CheckHealth returns early when the LLM check failed.
AfterOpenAI_StopOnError(d) == IF d.Error # "" THEN "return" ELSE "vector"

\* Where CheckHealth goes after the LLM subsystem (health.go:186).
AfterOpenAI(d) == "vector"

\* CheckHealth stores the returned LLM details (health.go:181-184).
CheckHealthStoreOpenAI(p) ==
    /\ pc[p] = "storeOpenAI"
    /\ healthOpenAI' = StoreIfNoError(healthOpenAI, local[p].openAI)
    /\ pc' = [pc EXCEPT ![p] = AfterOpenAI(local[p].openAI)]
    /\ UNCHANGED settingsVars
    /\ UNCHANGED vectorVars
    /\ UNCHANGED <<settings, vectorService, healthVector, healthCheckMutex,
                   local, last, calls, llmReqs, vecReqs, llmFailSeen>>

\* vectorHealth reads the cache (health.go:150): does it return the snapshot?
UseCachedVector(cache) == cache # <<>>

\* vectorHealth up to its first blocking point (health.go:149-162 and
\* testVectorService, health.go:137-140).
VectorHealthBegin(p) ==
    /\ pc[p] = "vector"
    /\ IF UseCachedVector(healthVector)
       THEN /\ local' = [local EXCEPT ![p].vector = healthVector[1]]
            /\ pc' = [pc EXCEPT ![p] = "storeVector"]
            /\ UNCHANGED <<healthVector, vecReqs>>
       ELSE LET d0 == [Enabled |-> settings.VectorEnabled, OK |-> TRUE, Error |-> ""]
            IN IF ~d0.Enabled
               THEN /\ local' = [local EXCEPT ![p].vector = [d0 EXCEPT !.OK = FALSE]]
                    /\ pc' = [pc EXCEPT ![p] = "storeVector"]
                    /\ UNCHANGED <<healthVector, vecReqs>>
               ELSE IF vectorService = "nil"
                    THEN LET d == [d0 EXCEPT !.OK = FALSE,
                                             !.Error = "vector service not configured"]
                         IN /\ local' = [local EXCEPT ![p].vector = d]
                            /\ healthVector' = CacheVector(healthVector, d)
                            /\ pc' = [pc EXCEPT ![p] = "storeVector"]
                            /\ UNCHANGED vecReqs
                    ELSE /\ local' = [local EXCEPT ![p].vector = d0]
                         /\ vecReqs' = vecReqs + 1
                         /\ pc' = [pc EXCEPT ![p] = "vectorWait"]
                         /\ UNCHANGED healthVector
    /\ UNCHANGED settingsVars
    /\ UNCHANGED vectorVars
    /\ UNCHANGED <<settings, vectorService, healthOpenAI, healthCheckMutex,
                   last, calls, llmReqs, llmFailSeen>>

\* vectorService.Health returns (health.go:140-145); vectorHealth runs to its
\* return (health.go:163-172).
VectorHealthRecv(p, outcome) ==
    /\ pc[p] = "vectorWait"
    /\ LET err == testVectorServiceError(outcome)
           d   == IF err # ""
                  THEN [local[p].vector EXCEPT !.OK = FALSE, !.Error = err]
                  ELSE local[p].vector
       IN /\ local' = [local EXCEPT ![p].vector = d]
          /\ healthVector' = CacheVector(healthVector, d)
    /\ pc' = [pc EXCEPT ![p] = "storeVector"]
    /\ UNCHANGED settingsVars
    /\ UNCHANGED vectorVars
    /\ UNCHANGED <<settings, vectorService, healthOpenAI, healthCheckMutex,
                   last, calls, llmReqs, vecReqs, llmFailSeen>>

\* CheckHealth stores the returned vector details (health.go:186-189).
CheckHealthStoreVector(p) ==
    /\ pc[p] = "storeVector"
    /\ healthVector' = StoreIfNoError(healthVector, local[p].vector)
    /\ pc' = [pc EXCEPT ![p] = "return"]
    /\ UNCHANGED settingsVars
    /\ UNCHANGED vectorVars
    /\ UNCHANGED <<settings, vectorService, healthOpenAI, healthCheckMutex,
                   local, last, calls, llmReqs, vecReqs, llmFailSeen>>

\* json.Marshal(details) (health.go:191-196).  Structs of booleans, strings
\* and a string-keyed map always marshal, so err is nil.
MarshalDetails(openAI, vector, version) ==
    [body |-> [openAI  |-> MarshalOpenAI(openAI),
               vector  |-> MarshalVector(vector),
               version |-> version],
     err |-> "nil"]

\* Mutant of CheckHealthResult: a subsystem that is not ok turns the status
\* into an error.
CheckHealthResult_FlagsDecide(m) ==
    IF m.err # "nil" \/ ~m.body.openAI.ok \/ ~m.body.vector.ok
    THEN [Status |-> "ERROR", Message |-> "failed to marshal details", err |-> "nil"]
    ELSE [Status |-> "OK", JSONDetails |-> m.body, err |-> "nil"]

\* What CheckHealth returns for the marshalled details (health.go:197-206).
CheckHealthResult(m) ==
    IF m.err # "nil"
    THEN [Status |-> "ERROR", Message |-> "failed to marshal details", err |-> "nil"]
    ELSE [Status |-> "OK", JSONDetails |-> m.body, err |-> "nil"]

\* CheckHealth builds and marshals the details, returns and, deferred, unlocks
\* (health.go:191-207, 179).
CheckHealthReturn(p, version) ==
    /\ pc[p] = "return"
    /\ last' = << CheckHealthResult(
                     MarshalDetails(local[p].openAI, local[p].vector, version))
                  @@ [by |-> p] >>
    /\ healthCheckMutex' = 0
    /\ local' = [local EXCEPT ![p] = ZeroLocal]
    /\ pc' = [pc EXCEPT ![p] = "idle"]
    /\ UNCHANGED settingsVars
    /\ UNCHANGED vectorVars
    /\ UNCHANGED <<settings, vectorService, healthOpenAI, healthVector,
                   calls, llmReqs, vecReqs, llmFailSeen>>

Next ==
    \E p \in Procs :
        \/ CheckHealthCall(p)
        \/ Lock(p)
        \/ OpenAIHealthBegin(p)
        \/ TestOpenAIModelSend(p)
        \/ \E o \in LLMOutcomes : TestOpenAIModelRecv(p, o)
        \/ CheckHealthStoreOpenAI(p)
        \/ VectorHealthBegin(p)
        \/ \E o \in VectorOutcomes : VectorHealthRecv(p, o)
        \/ CheckHealthStoreVector(p)
        \/ \E v \in Versions : CheckHealthReturn(p, v)

Spec == Init /\ [][Next]_vars

\* ---------------------------------------------- resources.go: loadSettings
\* Longest decoded combined secret that is tried.
MaxTokenLen == 4

\* A string that is split or trimmed is a sequence of characters.
TokenChars == {"t", ":", " "}
Tokens == UNION {[1..n -> TokenChars] : n \in 0..MaxTokenLen}

\* An optional JSON member is <<>> (absent) or <<value>>.
Opt(S) == {<<>>} \cup {<<v>> : v \in S}

\* appSettings.JSONData: no bytes at all, bytes that are not valid JSON, or an
\* object with the members loadSettings reads.
JSONDocs ==
    {[kind |-> "empty"], [kind |-> "malformed"]} \cup
    [kind : {"object"},
     url : Opt({"", "https://custom.example"}),
     provider : Opt({"openai", "azure", "grafana", "pulze", "bogus", ""}),
     gatewayURL : Opt({"https://llm-gateway.example"}),
     embedType : Opt({"openai"}),
     vectorEnabled : Opt({TRUE})]

\* base64.StdEncoding: an encoded secret is written <<"b64", s>> for the
\* encoding of the string s, and <<"notb64">> for a string that is no base64.
EncodedSecrets == {<<"notb64">>} \cup {<<"b64", t>> : t \in Tokens}

\* appSettings.DecryptedSecureJSONData, by its three keys.
SecretMaps ==
    [openAIKey : Opt({"sk-key"}),
     llmGatewayKey : Opt({"gw-key"}),
     base64EncodedAccessToken : Opt(EncodedSecrets)]

\* m[k] of a Go map: the zero value when the key is absent.
MapValue(m, k) == IF m[k] = <<>> THEN "" ELSE m[k][1]

\* base64.StdEncoding.DecodeString (resources.go:179).
DecodeString(e) ==
    IF e[1] = "b64"
    THEN [bytes |-> e[2], err |-> "nil"]
    ELSE [bytes |-> <<>>, err |-> "illegal base64 data"]

RECURSIVE TrimLeft(_)
TrimLeft(s) == IF s # <<>> /\ Head(s) = " " THEN TrimLeft(Tail(s)) ELSE s

RECURSIVE TrimRight(_)
TrimRight(s) ==
    IF s # <<>> /\ s[Len(s)] = " " THEN TrimRight(SubSeq(s, 1, Len(s) - 1)) ELSE s

\* strings.TrimSpace
TrimSpace(s) == TrimRight(TrimLeft(s))

\* strings.Split(s, sep) for a one-character separator.
RECURSIVE Split(_, _)
Split(s, sep) ==
    IF \E i \in 1..Len(s) : s[i] = sep
    THEN LET i == CHOOSE i \in 1..Len(s) :
                      s[i] = sep /\ \A j \in 1..(i - 1) : s[j] # sep
         IN <<SubSeq(s, 1, i - 1)>> \o Split(SubSeq(s, i + 1, Len(s)), sep)
    ELSE <<s>>

\* The Settings literal loadSettings starts from (resources.go:119-127).
DefaultSettings ==
    [Tenant |-> <<>>,
     GrafanaComAPIKey |-> <<>>,
     OpenAI |-> [URL |-> "https://api.openai.com", Provider |-> "openai", apiKey |-> ""],
     Vector |-> [Enabled |-> FALSE, EmbedType |-> "", EmbedOpenAIURL |-> "",
                 EmbedAuthType |-> ""],
     LLMGateway |-> [URL |-> "", IsOptIn |-> FALSE, apiKey |-> ""]]

\* A member that is present overwrites the field, an absent one leaves it.
Member(opt, old) == IF opt = <<>> THEN old ELSE opt[1]

\* json.Unmarshal of an object into settings (resources.go:130).
Unmarshal(doc, s) ==
    [s EXCEPT !.OpenAI.URL = Member(doc.url, @),
              !.OpenAI.Provider = Member(doc.provider, @),
              !.LLMGateway.URL = Member(doc.gatewayURL, @),
              !.Vector.EmbedType = Member(doc.embedType, @),
              !.Vector.Enabled = Member(doc.vectorEnabled, @)]

\* Mutant of ResetEmptyURL: an empty URL is left empty.
ResetEmptyURL_Keep(s) == s

\* resources.go:140-142: an empty URL is reset to the OpenAI origin.
ResetEmptyURL(s) ==
    IF s.OpenAI.URL = "" THEN [s EXCEPT !.OpenAI.URL = "https://api.openai.com"] ELSE s

\* resources.go:143-146: the OpenAI embedder follows the top-level URL.
SyncEmbedder(s) ==
    IF s.Vector.EmbedType = "openai"
    THEN [s EXCEPT !.Vector.EmbedOpenAIURL = s.OpenAI.URL,
                   !.Vector.EmbedAuthType = "openai-key-auth"]
    ELSE s

\* Mutant of ProviderSwitch: no default branch, an unknown provider stays.
ProviderSwitch_NoDefault(s) ==
    CASE s.OpenAI.Provider = "grafana" ->
            IF s.LLMGateway.URL = "" THEN [s EXCEPT !.OpenAI.Provider = ""] ELSE s
      [] s.OpenAI.Provider = "pulze" ->
            IF s.OpenAI.URL = ""
            THEN [s EXCEPT !.OpenAI.URL = "https://api.pulze.ai/v1"]
            ELSE s
      [] OTHER -> s

\* The provider switch (resources.go:153-170).
ProviderSwitch(s) ==
    CASE s.OpenAI.Provider = "openai" -> s
      [] s.OpenAI.Provider = "azure" -> s
      [] s.OpenAI.Provider = "grafana" ->
            IF s.LLMGateway.URL = "" THEN [s EXCEPT !.OpenAI.Provider = ""] ELSE s
      [] s.OpenAI.Provider = "pulze" ->
            IF s.OpenAI.URL = ""
            THEN [s EXCEPT !.OpenAI.URL = "https://api.pulze.ai/v1"]
            ELSE s
      [] OTHER -> [s EXCEPT !.OpenAI.Provider = ""]

\* resources.go:172-174: the two API keys.
ReadKeys(s, secrets) ==
    [s EXCEPT !.OpenAI.apiKey = MapValue(secrets, "openAIKey"),
              !.LLMGateway.apiKey = MapValue(secrets, "llmGatewayKey")]

\* Mutant of ReadTenantAndToken: the two halves are not trimmed.
ReadTenantAndToken_NoTrim(s, secrets) ==
    IF secrets.base64EncodedAccessToken = <<>>
    THEN [settings |-> <<s>>, err |-> "nil"]
    ELSE LET token == DecodeString(secrets.base64EncodedAccessToken[1])
             tokenParts == Split(TrimSpace(token.bytes), ":")
         IN IF token.err # "nil"
            THEN [settings |-> <<>>, err |-> token.err]
            ELSE IF Len(tokenParts) # 2
            THEN [settings |-> <<>>, err |-> "invalid access token"]
            ELSE IF tokenParts[1] = <<>>
            THEN [settings |-> <<>>, err |-> "invalid tenant"]
            ELSE IF tokenParts[2] = <<>>
            THEN [settings |-> <<>>, err |-> "invalid grafana.com API key"]
            ELSE [settings |->
                    <<[s EXCEPT !.Tenant = tokenParts[1],
                                !.GrafanaComAPIKey = tokenParts[2]]>>,
                  err |-> "nil"]

\* Mutant of ReadTenantAndToken: the tenant is not checked for emptiness.
ReadTenantAndToken_NoTenantCheck(s, secrets) ==
    IF secrets.base64EncodedAccessToken = <<>>
    THEN [settings |-> <<s>>, err |-> "nil"]
    ELSE LET token == DecodeString(secrets.base64EncodedAccessToken[1])
             tokenParts == Split(TrimSpace(token.bytes), ":")
         IN IF token.err # "nil"
            THEN [settings |-> <<>>, err |-> token.err]
            ELSE IF Len(tokenParts) # 2
            THEN [settings |-> <<>>, err |-> "invalid access token"]
            ELSE IF TrimSpace(tokenParts[2]) = <<>>
            THEN [settings |-> <<>>, err |-> "invalid grafana.com API key"]
            ELSE [settings |->
                    <<[s EXCEPT !.Tenant = TrimSpace(tokenParts[1]),
                                !.GrafanaComAPIKey = TrimSpace(tokenParts[2])]>>,
                  err |-> "nil"]

\* resources.go:176-198: the combined tenant and token secret, and the return.
ReadTenantAndToken(s, secrets) ==
    IF secrets.base64EncodedAccessToken = <<>>
    THEN [settings |-> <<s>>, err |-> "nil"]
    ELSE LET token == DecodeString(secrets.base64EncodedAccessToken[1])
             tokenParts == Split(TrimSpace(token.bytes), ":")
         IN IF token.err # "nil"
            THEN [settings |-> <<>>, err |-> token.err]
            ELSE IF Len(tokenParts) # 2
            THEN [settings |-> <<>>, err |-> "invalid access token"]
            ELSE IF TrimSpace(tokenParts[1]) = <<>>
            THEN [settings |-> <<>>, err |-> "invalid tenant"]
            ELSE IF TrimSpace(tokenParts[2]) = <<>>
            THEN [settings |-> <<>>, err |-> "invalid grafana.com API key"]
            ELSE [settings |->
                    <<[s EXCEPT !.Tenant = TrimSpace(tokenParts[1]),
                                !.GrafanaComAPIKey = TrimSpace(tokenParts[2])]>>,
                  err |-> "nil"]

\* Mutant of loadSettings: a configuration that does not parse is treated
\* like an empty one and the defaults are returned.
loadSettings_IgnoreParseError(app) ==
    LET parsed == IF app.JSONData.kind \in {"empty", "malformed"}
                  THEN DefaultSettings
                  ELSE Unmarshal(app.JSONData, DefaultSettings)
        s == ReadKeys(ProviderSwitch(SyncEmbedder(ResetEmptyURL(parsed))),
                      app.DecryptedSecureJSONData)
    IN ReadTenantAndToken(s, app.DecryptedSecureJSONData)

\* loadSettings (resources.go:118-199): (*Settings, error).
loadSettings(app) ==
    IF app.JSONData.kind = "malformed"
    THEN [settings |-> <<>>, err |-> "json: syntax error"]
    ELSE LET parsed == IF app.JSONData.kind = "empty"
                       THEN DefaultSettings
                       ELSE Unmarshal(app.JSONData, DefaultSettings)
             s == ReadKeys(ProviderSwitch(SyncEmbedder(ResetEmptyURL(parsed))),
                           app.DecryptedSecureJSONData)
         IN ReadTenantAndToken(s, app.DecryptedSecureJSONData)

\* The host hands a configuration and its secrets to the plugin.
InitSettings ==
    /\ HealthInit([Configured |-> FALSE, Provider |-> "openai",
                   VectorEnabled |-> FALSE], "nil")
    /\ appSettings \in [JSONData : JSONDocs, DecryptedSecureJSONData : SecretMaps]
    /\ loaded = <<>>
    /\ VectorInit

\* The settings are resolved: loadSettings runs on the configuration.
LoadSettings ==
    /\ loaded = <<>>
    /\ loaded' = <<loadSettings(appSettings)>>
    /\ UNCHANGED appSettings
    /\ UNCHANGED healthVars
    /\ UNCHANGED vectorVars

NextSettings == LoadSettings

SpecSettings == InitSettings /\ [][NextSettings]_vars

\* ------------------------------------ vector/store/vectorapi.go: the client
\* Number of operations called on the client in one behaviour.
MaxVectorCalls == 2
\* Longest response body, in runs, that is tried.
MaxRuns == 4
\* io.LimitReader(resp.Body, 1024*1024): bytes of the body that Search reads.
ReadLimit == 1048576

VectorOps == {"CollectionExists", "Search", "Health"}
Statuses == {"200", "500"}

\* A response body is a sequence of runs, a run being n times the byte c.
\* The bytes are those of a JSON array of result objects: the brackets, the
\* comma, "o" for one whole result object, and white space, which comes in
\* runs of one byte or of ReadLimit bytes.
Runs ==
    [c : {"[", "]", ",", "o"}, n : {1}] \cup [c : {" "}, n : {1, ReadLimit}]
Bodies == UNION {[1..k -> Runs] : k \in 0..MaxRuns}

\* len(body)
RECURSIVE BodyLen(_)
BodyLen(b) == IF b = <<>> THEN 0 ELSE Head(b).n + BodyLen(Tail(b))

\* io.ReadAll(io.LimitReader(body, limit)): the first `limit` bytes.
RECURSIVE LimitRead(_, _)
LimitRead(b, limit) ==
    IF b = <<>> \/ limit = 0
    THEN <<>>
    ELSE IF Head(b).n <= limit
         THEN <<Head(b)>> \o LimitRead(Tail(b), limit - Head(b).n)
         ELSE <<[c |-> Head(b).c, n |-> limit]>>

\* The bytes of b that are not white space (those runs have one byte each).
IsInk(r) == r.c # " "
Ink(b) == [i \in 1..Len(SelectSeq(b, IsInk)) |-> SelectSeq(b, IsInk)[i].c]

\* json.Unmarshal(body, &queryResult) accepts "[", result objects separated
\* by commas, "]", with white space anywhere between them.
IsResultArray(t) ==
    /\ Len(t) >= 2
    /\ t[1] = "[" /\ t[Len(t)] = "]"
    /\ \/ Len(t) = 2
       \/ /\ Len(t) % 2 = 1
          /\ \A i \in 2..(Len(t) - 1) : t[i] = (IF i % 2 = 0 THEN "o" ELSE ",")

\* The decoded queryResult: one entry per result object.
DecodedResults(t) == Cardinality({i \in 1..Len(t) : t[i] = "o"})

\* CollectionExists after the response arrived (vectorapi.go:28-31).
CollectionExistsReturn(resp) ==
    IF resp.status # "200"
    THEN [value |-> FALSE, err |-> "get collections: status"]
    ELSE [value |-> TRUE, err |-> "nil"]

\* Health after the response arrived (vectorapi.go:94-97).
HealthReturn(resp) ==
    IF resp.status # "200"
    THEN [value |-> "none", err |-> "get health: status"]
    ELSE [value |-> "none", err |-> "nil"]

\* Search after the response arrived (vectorapi.go:59-86); value is nil or
\* the list of SearchResult.
SearchReturn(resp, readOK) ==
    LET body == LimitRead(resp.body, ReadLimit)
    IN IF ~readOK
       THEN [value |-> "nil", err |-> "read response body"]
       ELSE IF resp.status # "200"
       THEN [value |-> "nil", err |-> "post collections: status"]
       ELSE IF ~IsResultArray(Ink(body))
       THEN [value |-> "nil", err |-> "decode collections"]
       ELSE [value |-> [i \in 1..DecodedResults(Ink(body)) |->
                           [Payload |-> "metadata", Score |-> "score"]],
             err |-> "nil"]

\* What an operation returns for a response.
ReturnFor(op, resp, readOK) ==
    CASE op = "CollectionExists" -> CollectionExistsReturn(resp)
      [] op = "Health" -> HealthReturn(resp)
      [] OTHER -> SearchReturn(resp, readOK)

\* The error an operation returns when the client returns none.
TransportError(op) ==
    CASE op = "CollectionExists" -> [value |-> FALSE, err |-> "get collection"]
      [] op = "Health" -> [value |-> "none", err |-> "get health"]
      [] OTHER -> [value |-> "nil", err |-> "post collections"]

\* Response bodies an operation closes before it returns: Search defers
\* resp.Body.Close (vectorapi.go:54-58), the other two never close it.
ClosedBy(op) == IF op = "Search" THEN 1 ELSE 0

\* An operation is called with a fresh context.  Search marshals its request
\* first and returns at once when that fails (vectorapi.go:41-49); otherwise
\* the request is sent with g.client.Get or g.client.Post, which take no
\* context (vectorapi.go:24, 50, 90).
VectorCall(op, marshalOK) ==
    /\ vpc = "idle"
    /\ vcalls < MaxVectorCalls
    /\ vcalls' = vcalls + 1
    /\ vop' = op
    /\ ctxDone' = FALSE
    /\ vresp' = <<>>
    /\ IF op = "Search" /\ ~marshalOK
       THEN /\ vresult' = <<[value |-> "nil", err |-> "marshal request"]>>
            /\ vpc' = "idle"
       ELSE /\ vresult' = <<>>
            /\ vpc' = "inflight"
    /\ UNCHANGED openBodies
    /\ UNCHANGED <<healthVars, settingsVars>>

\* The caller cancels the context while the request is in flight.  The
\* request was built without the context, so nothing else changes.
CancelContext ==
    /\ vpc = "inflight"
    /\ ~ctxDone
    /\ ctxDone' = TRUE
    /\ UNCHANGED <<vpc, vop, vresp, vresult, openBodies, vcalls>>
    /\ UNCHANGED <<healthVars, settingsVars>>

\* The client returns an error and no response (vectorapi.go:25-27, 51-53,
\* 91-93).
VectorTransportError ==
    /\ vpc = "inflight"
    /\ vresult' = <<TransportError(vop)>>
    /\ vpc' = "idle"
    /\ UNCHANGED <<vop, ctxDone, vresp, openBodies, vcalls>>
    /\ UNCHANGED <<healthVars, settingsVars>>

\* The client returns a response, whose body is open, and the operation runs
\* to its return.
VectorRespond(status, body, readOK) ==
    /\ vpc = "inflight"
    /\ vop # "Search" => (body = <<>> /\ readOK)
    /\ vresp' = <<[status |-> status, body |-> body]>>
    /\ vresult' = <<ReturnFor(vop, [status |-> status, body |-> body], readOK)>>
    /\ openBodies' = openBodies + 1 - ClosedBy(vop)
    /\ vpc' = "idle"
    /\ UNCHANGED <<vop, ctxDone, vcalls>>
    /\ UNCHANGED <<healthVars, settingsVars>>

InitVector ==
    /\ HealthInit([Configured |-> FALSE, Provider |-> "openai",
                   VectorEnabled |-> TRUE], "set")
    /\ appSettings = NoAppSettings
    /\ loaded = <<>>
    /\ VectorInit

NextVector ==
    \/ \E op \in VectorOps, marshalOK \in BOOLEAN : VectorCall(op, marshalOK)
    \/ CancelContext
    \/ VectorTransportError
    \/ \E status \in Statuses, body \in Bodies, readOK \in BOOLEAN :
          VectorRespond(status, body, readOK)

SpecVector == InitVector /\ [][NextVector]_vars

\* ------------------------------------------------------------ helpers
Idle == \A p \in Procs : pc[p] = "idle"
\* Callers between Lock and Unlock.
InCheck == {p \in Procs : pc[p] \notin {"idle", "lock"}}
\* Callers blocked in an outbound health request.
InFlight == {p \in Procs : pc[p] \in {"probeWait", "vectorWait"}}
LastReport == last[1].JSONDetails
\* The call that returned last probed the provider and no model worked.
LastLLMFailed ==
    /\ last # <<>>
    /\ LastReport.openAI.configured
    /\ ~LastReport.openAI.ok
\* The call that returned last called VectorStore.Health and it failed.
LastVectorFailed ==
    /\ last # <<>>
    /\ LastReport.vector.enabled
    /\ ~LastReport.vector.ok
    /\ vectorService = "set"

\* ------------------------------------------------------------ claims

\* C1 (as stated): on an instance whose provider is configured and whose
\* probes always succeed, concurrent CheckHealth calls send at most one
\* outbound probe request to the provider.
C1_AtMostOneProbeCall ==
    (settings.Configured /\ ~llmFailSeen) => llmReqs <= 1

\* C1 (amended): on an instance whose provider is configured and whose probes
\* always succeed, concurrent CheckHealth calls run at most one probe cycle:
\* at most one request per model of the provider's model list is sent, every
\* later call observing the cached snapshot.
C1_AtMostOneProbeCycle ==
    (settings.Configured /\ ~llmFailSeen) => llmReqs <= Len(ModelList(settings))

\* Two calls have returned, the first probed every model, the second did not.
C1_Witness ==
    /\ settings.Configured /\ ~llmFailSeen
    /\ calls = 2 /\ Idle
    /\ llmReqs = Len(ModelList(settings))
    /\ last # <<>> /\ LastReport.openAI.ok

\* C2: a failed probe of a subsystem is not stored, and the next CheckHealth
\* call probes that subsystem again instead of returning the earlier failure.
C2_FailureNotCached ==
    /\ [](LastLLMFailed /\ InCheck = {} => healthOpenAI = <<>>)
    /\ [](LastVectorFailed /\ InCheck = {} => healthVector = <<>>)
    /\ [][\A p \in Procs :
            /\ (LastLLMFailed /\ pc[p] = "openAI" /\ pc'[p] # "openAI")
                  => (pc'[p] = "probe" /\ healthOpenAI' = <<>>)
            /\ (LastVectorFailed /\ pc[p] = "vector" /\ pc'[p] # "vector")
                  => (pc'[p] = "vectorWait" /\ vecReqs' = vecReqs + 1)]_vars

\* The previous call failed on both subsystems and the current call, having
\* probed the provider again, is blocked in a new VectorStore.Health call.
C2_Witness ==
    /\ LastLLMFailed /\ LastVectorFailed
    /\ \E p \in Procs :
          /\ pc[p] = "vectorWait"
          /\ DOMAIN local[p].openAI.Models = Range(ModelList(settings))
    /\ llmReqs = 2 * Len(ModelList(settings))
    /\ vecReqs = 2

\* C3: a cached snapshot, when set, has ok = true: no snapshot with
\* ok = false is ever stored.
C3_CachedSnapshotsAreOK ==
    /\ (healthOpenAI # <<>> => healthOpenAI[1].OK)
    /\ (healthVector # <<>> => healthVector[1].OK)

\* C4: with vector search disabled a health check reports
\* {enabled:false, ok:false}, never calls VectorStore.Health and leaves the
\* vector snapshot cache unset.
C4_DisabledVectorUncached ==
    ~settings.VectorEnabled =>
        /\ vecReqs = 0
        /\ (last # <<>> => LastReport.vector = [enabled |-> FALSE, ok |-> FALSE])
        /\ healthVector = <<>>

\* C5: once the LLM snapshot is cached it is never replaced or cleared, no
\* further request is sent to the provider, and every call that returns
\* reports exactly the cached snapshot.
C5_CachedOKIsStable ==
    [][healthOpenAI # <<>> =>
          /\ healthOpenAI' = healthOpenAI
          /\ llmReqs' = llmReqs
          /\ (last' # last =>
                last'[1].JSONDetails.openAI = MarshalOpenAI(healthOpenAI[1]))]_vars

\* A call that found the snapshot cached (with one failed model in its
\* details) has returned it.
C5_Witness ==
    /\ healthOpenAI # <<>>
    /\ \E m \in DOMAIN healthOpenAI[1].Models : ~healthOpenAI[1].Models[m].OK
    /\ calls = 3 /\ Idle
    /\ llmReqs = Len(ModelList(settings))
    /\ LastReport.openAI = MarshalOpenAI(healthOpenAI[1])

\* C6: when openAIHealth returns, its overall ok is true iff at least one
\* model of the model list was probed successfully, and the LLM snapshot is
\* cached iff that overall ok is true.
C6_OKIffAnyModelOK ==
    \A p \in Procs :
        pc[p] = "storeOpenAI" =>
            LET d == local[p].openAI
            IN /\ DOMAIN d.Models = Range(ModelList(settings))
               /\ d.OK <=> (\E m \in DOMAIN d.Models : d.Models[m].OK)
               /\ d.OK <=> (d.Error = "")
               /\ d.OK <=> (healthOpenAI = <<d>>)
               /\ ~d.OK => healthOpenAI = <<>>

\* A cycle in which one model succeeded and another failed was cached.
C6_Witness ==
    \E p \in Procs :
        /\ pc[p] = "storeOpenAI"
        /\ llmReqs = Len(ModelList(settings))
        /\ \E m1, m2 \in DOMAIN local[p].openAI.Models :
              local[p].openAI.Models[m1].OK /\ ~local[p].openAI.Models[m2].OK
        /\ healthOpenAI = <<local[p].openAI>>

\* What a health check of an unconfigured provider reports and does, given
\* the per-model error text.
UnconfiguredReport(text) ==
    (~settings.Configured) =>
        /\ llmReqs = 0
        /\ healthOpenAI = <<>>
        /\ last # <<>> =>
              /\ ~LastReport.openAI.ok
              /\ ~LastReport.openAI.configured
              /\ DOMAIN LastReport.openAI.models = Range(ModelList(settings))
              /\ \A m \in DOMAIN LastReport.openAI.models :
                    LastReport.openAI.models[m] = [ok |-> FALSE, error |-> text]

\* C7 (as stated): unconfigured, every model is reported
\* {ok:false, error:"not configured"}, no request is sent, overall ok is
\* false and nothing is cached.
C7_UnconfiguredAsStated == UnconfiguredReport("not configured")

\* C7 (amended): unconfigured, every model is reported
\* {ok:false, error:"OpenAI not configured"}, no request is sent, overall ok
\* is false and nothing is cached.
C7_Unconfigured == UnconfiguredReport("OpenAI not configured")

\* Two calls on an unconfigured instance have returned.
C7_Witness ==
    /\ ~settings.Configured
    /\ calls = 2 /\ Idle
    /\ last # <<>> /\ ~LastReport.openAI.ok

\* C8: at most one CheckHealth call of the instance is between Lock and
\* Unlock, it is the holder of the mutex, and at most one outbound health
\* request of the instance is in flight.
C8_MutualExclusion ==
    /\ Cardinality(InCheck) <= 1
    /\ \A p \in InCheck : healthCheckMutex = p
    /\ Cardinality(InFlight) <= 1

\* One call is blocked in a provider request while another waits for the lock.
C8_Witness ==
    \E p, q \in Procs :
        /\ pc[p] = "probeWait"
        /\ pc[q] = "lock"

\* C9: every CheckHealth call returns a report, not an error, that holds
\* both subsystems as evaluated; a failed LLM or vector check appears as
\* ok:false with an error string.
C9_BothSubsystemsReported ==
    last # <<>> =>
        /\ last[1].err = "nil"
        /\ {"openAI", "vector"} \subseteq DOMAIN LastReport
        /\ LastReport.openAI.configured = settings.Configured
        /\ DOMAIN LastReport.openAI.models = Range(ModelList(settings))
        /\ ~LastReport.openAI.ok => "error" \in DOMAIN LastReport.openAI
        /\ LastReport.vector.enabled = settings.VectorEnabled
        /\ (LastReport.vector.enabled /\ ~LastReport.vector.ok)
              => "error" \in DOMAIN LastReport.vector

\* A call in which every model failed and VectorStore.Health failed returned
\* a report that holds both failures.
C9_Witness ==
    /\ LastLLMFailed
    /\ LastVectorFailed
    /\ LastReport.openAI.error = "No models are working"
    /\ "error" \in DOMAIN LastReport.vector

\* The configuration names the provider "pulze" and gives no OpenAI URL.
PulzeWithoutURL ==
    /\ appSettings.JSONData.kind = "object"
    /\ appSettings.JSONData.provider = <<"pulze">>
    /\ appSettings.JSONData.url \in {<<>>, <<"">>}

\* C10: resolving a configuration with provider "pulze" and no explicit
\* OpenAI URL (absent or empty) yields the URL https://api.pulze.ai/v1.
C10_PulzeFallbackURL ==
    (loaded # <<>> /\ PulzeWithoutURL /\ loaded[1].err = "nil") =>
        loaded[1].settings[1].OpenAI.URL = "https://api.pulze.ai/v1"

\* ------------------------------------------- claims on loadSettings
\* loadSettings has returned a Settings and no error.
Resolved == loaded # <<>> /\ loaded[1].err = "nil"
ResolvedSettings == loaded[1].settings[1]
\* loadSettings has returned no Settings and the given error.
FailedWith(e) == loaded # <<>> /\ loaded[1].settings = <<>> /\ loaded[1].err = e
\* The provider member of the configuration, "openai" when there is none.
ConfiguredProvider ==
    IF appSettings.JSONData.kind = "object" /\ appSettings.JSONData.provider # <<>>
    THEN appSettings.JSONData.provider[1]
    ELSE "openai"
\* The gateway URL member of the configuration, "" when there is none.
ConfiguredGatewayURL ==
    IF appSettings.JSONData.kind = "object" /\ appSettings.JSONData.gatewayURL # <<>>
    THEN appSettings.JSONData.gatewayURL[1]
    ELSE ""
\* The configuration parses and the combined secret is present and is base64.
TokenDecoded ==
    /\ appSettings.JSONData.kind # "malformed"
    /\ appSettings.DecryptedSecureJSONData.base64EncodedAccessToken # <<>>
    /\ appSettings.DecryptedSecureJSONData.base64EncodedAccessToken[1][1] = "b64"
\* The decoded combined secret.
DecodedToken == appSettings.DecryptedSecureJSONData.base64EncodedAccessToken[1][2]
\* Positions of ':' and of the characters that are not white space.
ColonsOf(t) == {i \in 1..Len(t) : t[i] = ":"}
InkOf(t, lo, hi) == {i \in lo..hi : t[i] # " "}
TheColon(t) == CHOOSE i \in ColonsOf(t) : TRUE
Least(S) == CHOOSE i \in S : \A j \in S : i <= j
Greatest(S) == CHOOSE i \in S : \A j \in S : j <= i
\* The decoded secret reads "<nonempty>:<nonempty>" once trimmed.
WellFormedToken(t) ==
    /\ Cardinality(ColonsOf(t)) = 1
    /\ InkOf(t, 1, TheColon(t) - 1) # {}
    /\ InkOf(t, TheColon(t) + 1, Len(t)) # {}

\* C11: after a successful resolution the provider is openai, azure,
\* grafana, pulze or the empty (disabled) one; an unknown provider string
\* resolves to disabled, grafana without a gateway URL resolves to disabled,
\* and openai and azure pass through unchanged.
C11_ProviderCoercion ==
    Resolved =>
        /\ ResolvedSettings.OpenAI.Provider \in {"openai", "azure", "grafana", "pulze", ""}
        /\ ConfiguredProvider \notin {"openai", "azure", "grafana", "pulze"}
              => ResolvedSettings.OpenAI.Provider = ""
        /\ (ConfiguredProvider = "grafana" /\ ConfiguredGatewayURL = "")
              => ResolvedSettings.OpenAI.Provider = ""
        /\ ResolvedSettings.OpenAI.Provider = "grafana"
              => ResolvedSettings.LLMGateway.URL # ""
        /\ ConfiguredProvider \in {"openai", "azure"}
              => ResolvedSettings.OpenAI.Provider = ConfiguredProvider

\* A configuration naming an unknown provider was resolved to disabled.
C11_Witness ==
    /\ Resolved
    /\ ConfiguredProvider = "bogus"
    /\ ResolvedSettings.OpenAI.Provider = ""

\* C12: with the combined secret present and its decoded value not of the
\* form "<nonempty>:<nonempty>" after trimming, resolution returns no
\* Settings and the error is: invalid access token when there are not exactly
\* two ':'-separated parts; else invalid tenant when the trimmed first part is
\* empty; else invalid API key when the trimmed second part is empty.
C12_SecretErrors ==
    (loaded # <<>> /\ TokenDecoded /\ ~WellFormedToken(DecodedToken)) =>
        LET t == DecodedToken
        IN IF Cardinality(ColonsOf(t)) # 1
           THEN FailedWith("invalid access token")
           ELSE IF InkOf(t, 1, TheColon(t) - 1) = {}
           THEN FailedWith("invalid tenant")
           ELSE FailedWith("invalid grafana.com API key")

\* A secret with a blank first half and a good second half was refused as an
\* invalid tenant.
C12_Witness ==
    /\ loaded # <<>> /\ TokenDecoded
    /\ DecodedToken = <<" ", ":", "t">>
    /\ FailedWith("invalid tenant")

\* C13: for a valid combined secret resolution succeeds and the tenant and
\* the grafana.com API key are exactly the trimmed first and second halves of
\* the decoded secret.
C13_TrimmedHalves ==
    (loaded # <<>> /\ TokenDecoded /\ WellFormedToken(DecodedToken)) =>
        LET t == DecodedToken
            c == TheColon(t)
            first == InkOf(t, 1, c - 1)
            second == InkOf(t, c + 1, Len(t))
        IN /\ Resolved
           /\ ResolvedSettings.Tenant = SubSeq(t, Least(first), Greatest(first))
           /\ ResolvedSettings.GrafanaComAPIKey
                 = SubSeq(t, Least(second), Greatest(second))

\* A secret with white space around its first half was resolved.
C13_Witness ==
    /\ Resolved /\ TokenDecoded
    /\ DecodedToken = <<" ", "t", ":", "t">>
    /\ ResolvedSettings.Tenant = <<"t">>
    /\ ResolvedSettings.GrafanaComAPIKey = <<"t">>

C15_MalformedFails ==
    (loaded # <<>> /\ appSettings.JSONData.kind = "malformed") =>
        FailedWith("json: syntax error")

\* A malformed configuration with a valid combined secret was refused.
C15_Witness ==
    /\ appSettings.JSONData.kind = "malformed"
    /\ appSettings.DecryptedSecureJSONData.base64EncodedAccessToken
          = << <<"b64", <<"t", ":", "t">> >> >>
    /\ FailedWith("json: syntax error")

\* The configuration gives no OpenAI URL, or the empty one.
NoExplicitURL ==
    \/ appSettings.JSONData.kind = "empty"
    \/ /\ appSettings.JSONData.kind = "object"
       /\ appSettings.JSONData.url \in {<<>>, <<"">>}

\* C16: after every successful resolution the OpenAI URL is not empty, and a
\* configuration whose OpenAI URL is absent or empty resolves to
\* https://api.openai.com.
C16_URLNeverEmpty ==
    Resolved =>
        /\ ResolvedSettings.OpenAI.URL # ""
        /\ NoExplicitURL => ResolvedSettings.OpenAI.URL = "https://api.openai.com"

\* The configuration {provider: "openai", url: ""} was resolved.
C16_Witness ==
    /\ Resolved
    /\ appSettings.JSONData.kind = "object"
    /\ appSettings.JSONData.provider = <<"openai">>
    /\ appSettings.JSONData.url = <<"">>
    /\ ResolvedSettings.OpenAI.URL = "https://api.openai.com"

\* C19: CheckHealth returns status OK with the JSON details attached whatever
\* the ok flags of the LLM and vector subsystems are.
C19_StatusAlwaysOK ==
    last # <<>> =>
        /\ last[1].Status = "OK"
        /\ last[1].err = "nil"
        /\ "JSONDetails" \in DOMAIN last[1]
        /\ {"openAI", "vector", "version"} \subseteq DOMAIN last[1].JSONDetails

\* A call on an unconfigured provider with a disabled vector service, or a
\* call whose two subsystems both failed, returned OK.
C19_Witness ==
    /\ last # <<>>
    /\ last[1].Status = "OK"
    /\ ~LastReport.openAI.ok
    /\ ~LastReport.vector.ok
    /\ \/ ~LastReport.openAI.configured /\ ~LastReport.vector.enabled
       \/ LastLLMFailed /\ LastVectorFailed

\* ------------------------------------------- claims on the vector client
LastResponse == vresp[1]
LastReturn == vresult[1]

\* C17: a Search whose response (status 200, read without error) has a body
\* larger than the 1 MiB read cap returns a decode error and no result list.
C17_OversizedIsDecodeError ==
    (/\ vpc = "idle" /\ vop = "Search" /\ vresp # <<>>
     /\ LastResponse.status = "200"
     /\ LastReturn.err # "read response body"
     /\ BodyLen(LastResponse.body) > ReadLimit)
        => (LastReturn.err = "decode collections" /\ LastReturn.value = "nil")

\* C18: an operation whose context was cancelled while its request was in
\* flight is aborted: it returns an error, and the request does not run on to
\* a response that the operation then handles.
C18_CancelAborts ==
    (vpc = "idle" /\ vresult # <<>> /\ ctxDone)
        => (LastReturn.err # "nil" /\ vresp = <<>>)

\* C20: when no operation is under way every response body obtained by
\* CollectionExists, Search or Health has been closed.
C20_BodiesClosed == vpc = "idle" => openBodies = 0

====
